---- MODULE Spec2Model ----
(***************************************************************************)
(* The three demo workflows of ai-dial-content-generation:                 *)
(*   task/image_to_text/openai/task_openai_itt.py   start                  *)
(*   task/image_to_text/task_dial_itt.py            _put_image, async_start*)
(*   task/text_to_image/task_tti.py                 _save_images,          *)
(*                                                  async_start            *)
(* Each workflow is one coroutine; pc is its position.  Every network      *)
(* operation (opening the bucket connection, put_file, get_file,           *)
(* get_completion) is a call step followed by a return step whose outcome  *)
(* (a value or an exception) the environment chooses.                      *)
(***************************************************************************)
EXTENDS Integers, Sequences, FiniteSets, TLC

(***************************************************************************)
(* Bounds of the model.                                                    *)
(***************************************************************************)
\* longest attachment list a completion response carries in a workflow run
MaxAtt == 1
\* longest attachment list handed to _save_images when it is run on its own
MaxBatch == 3
\* last clock tick of a run
MaxClock == 3
\* clock ticks per second: datetime.now() is finer than the %S of strftime
TicksPerSecond == 2

(***************************************************************************)
(* Python values.  A str whose characters matter (a MIME type, searched by *)
(* `in`) is a sequence of one-character strings; None is a value that is   *)
(* no such sequence.  A str that is only passed around and never tested   *)
(* (a prompt, a title, a deployment name) is a TLA+ string.                *)
(***************************************************************************)
None == <<"None">>

\* bool(x) of a str-or-None
Truthy(x) == x # None /\ x # <<>>

\* sub in s, for str
Contains(s, sub) ==
    \E k \in 0..(Len(s) - Len(sub)) : SubSeq(s, k + 1, k + Len(sub)) = sub

s_image == <<"i", "m", "a", "g", "e", "/">>
s_jpeg == <<"j", "p", "e", "g">>
s_jpg == <<"j", "p", "g">>
s_png == <<"p", "n", "g">>
s_webp == <<"w", "e", "b", "p">>
s_gif == <<"g", "i", "f">>
mime_type_png == s_image \o s_png
mime_type_jpeg == s_image \o s_jpeg
mime_type_webp == s_image \o s_webp
url_a == <<"u", "/", "a">>
url_b == <<"u", "/", "b">>

\* dict.get(key): None when the key is absent
Get(d, key) == IF key \in DOMAIN d THEN d[key] ELSE None

Attachment(title, url, type) == [title |-> title, url |-> url, type |-> type]

(***************************************************************************)
(* _save_images, lines 57-66: the file extension of an attachment.         *)
(***************************************************************************)
\* the rule without the `or "jpg" in attachment.type` of line 61
FileExtensionNoJpg(type) ==
    IF ~Truthy(type) THEN "png"
    ELSE IF Contains(type, s_jpeg) THEN "jpg"
    ELSE IF Contains(type, s_png) THEN "png"
    ELSE IF Contains(type, s_webp) THEN "webp"
    ELSE "png"

FileExtension(type) ==
    IF ~Truthy(type) THEN "png"
    ELSE IF Contains(type, s_jpeg) \/ Contains(type, s_jpg) THEN "jpg"
    ELSE IF Contains(type, s_png) THEN "png"
    ELSE IF Contains(type, s_webp) THEN "webp"
    ELSE "png"

\* strftime("%Y%m%d_%H%M%S") of a clock reading: the whole second it lies in
Timestamp(t) == t \div TicksPerSecond

\* f"generated_image_{timestamp}_{i+1}.{file_extension}", i counted from 0
Filename(timestamp, i, file_extension) ==
    [timestamp |-> timestamp, index |-> i + 1, ext |-> file_extension]

(***************************************************************************)
(* Program data.                                                           *)
(***************************************************************************)
file_name == "dialx-banner.png"
elephant_url == "https://a-z-animals.com/media/2019/11/Elephant-male-1024x535.jpg"
base64_data_url == "data:image/png;base64,<base64_image>"

models_to_test == <<"gpt-4o-mini", "claude-3-5-sonnet-20241022", "gemini-1.5-pro-002">>

styles_to_test ==
    << <<"natural", "A peaceful morning in Bali with soft natural lighting">>,
       <<"vivid", "A dramatic and vibrant Bali landscape with intense colors">> >>

\* get_completion called without custom_fields
NoFields == [absent |-> TRUE]

custom_fields == [size |-> "1792x1024", style |-> "vivid", quality |-> "hd", n |-> 1]

\* 7.5 is kept as its literal: the workflow never computes with it
google_custom_fields == [aspectRatio |-> "16:9", seed |-> 42, guidanceScale |-> "7.5"]

style_custom_fields(style) == [size |-> "1024x1024", style |-> style, quality |-> "hd"]

\* one call of get_completion: the client's deployment and the arguments
Request(model, prompt, images, attachments, fields) ==
    [model |-> model, prompt |-> prompt, images |-> images,
     attachments |-> attachments, custom_fields |-> fields]

(***************************************************************************)
(* What the environment can answer.                                        *)
(***************************************************************************)
\* the dict put_file returns: with a url, with an empty or null one, without
UploadResults ==
    {[url |-> url_a], [url |-> url_b], [url |-> <<>>], [url |-> None],
     [name |-> file_name]}

\* upload_result before put_file has returned
NoResult == [pending |-> TRUE]

SeqsUpTo(S, n) == UNION {[1..k -> S] : k \in 0..n}

\* attachments of a completion response in a workflow run
ResponseAttachments ==
    {Attachment(t, u, ty) : t \in {"image"}, u \in {<<>>, url_a},
                            ty \in {mime_type_png, mime_type_jpeg}}
Responses == SeqsUpTo(ResponseAttachments, MaxAtt)

\* attachment lists for _save_images run on its own
BatchAttachments ==
    {Attachment(t, u, ty) : t \in {"image"}, u \in {None, <<>>, url_a},
                            ty \in {mime_type_png, mime_type_jpeg}}
Batches == SeqsUpTo(BatchAttachments, MaxBatch)

\* MIME types for the extension rule on its own
TypeStrings ==
    {None} \cup
    {p \o c \o s : p \in {<<>>, s_image, <<"x", "-">>},
                   c \in {<<>>, s_jpeg, s_jpg, s_png, s_webp, s_gif, <<"P", "N", "G">>},
                   s \in {<<>>, s_png, s_jpeg, s_webp, <<"2">>}}

NetworkOps == {"bucket_open", "put_file", "get_file", "get_completion"}

VARIABLES
    wf,             \* the entry point running: "openai", "dial", "tti", "save", "ext"
    pc,             \* position of the coroutine
    ret,            \* call site of _put_image: "first" (line 54) or "multi" (line 116)
    conn,           \* number of open bucket connections
    inflight,       \* network operations issued and not yet returned
    escaped,        \* the step whose exception left the workflow, or "none"
    requests,       \* the get_completion calls made, in order
    attachment,     \* task_dial_itt.async_start: attachment
    attachment2,    \* task_dial_itt.async_start: attachment2
    upload_result,  \* _put_image: upload_result of the latest put_file
    put_raised,     \* the exception the latest _put_image ended with, or "none"
    uploads,        \* the Attachments _put_image has returned
    mi,             \* index of `model` in models_to_test
    outcome,        \* how each iteration of the model loop ended
    reported,       \* models whose result line 105 printed
    step,           \* task_tti.async_start: the generation step begun last, 1..5
    step_ok,        \* whether the get_completion of this step returned
    response,       \* attachments of the response of this step
    atts,           \* _save_images: attachments
    i,              \* _save_images: i of enumerate(attachments)
    downloads,      \* i + 1 of the get_file calls of this batch
    writes,         \* the files this batch saved
    created,        \* i + 1 of the attachments whose open(file_path, 'wb') succeeded
    skips,          \* i + 1 of the attachments line 82 reported
    failures,       \* the failures line 80 reported
    save_raised,    \* the exception _save_images ended with, or "none"
    now,            \* the latest clock reading
    disk,           \* names of the files in generated_images
    overwrites,     \* names opened for writing when already on disk
    type_in,        \* the extension rule on its own: attachment.type
    file_extension  \* the extension rule on its own: file_extension

vars ==
    <<wf, pc, ret, conn, inflight, escaped, requests, attachment, attachment2,
      upload_result, put_raised, uploads, mi, outcome, reported, step, step_ok,
      response, atts, i, downloads, writes, created, skips, failures,
      save_raised, now, disk, overwrites, type_in, file_extension>>

ctlVars == <<wf, pc, ret, conn, inflight, escaped, requests>>
dialVars ==
    <<attachment, attachment2, upload_result, put_raised, uploads, mi, outcome,
      reported>>
stepVars == <<step, step_ok, response>>
saveVars ==
    <<atts, i, downloads, writes, created, skips, failures, save_raised, now,
      disk, overwrites>>
extVars == <<type_in, file_extension>>

\* the state before anything has run, the arguments aside
Idle ==
    /\ ret = "first" /\ conn = 0 /\ inflight = {} /\ escaped = "none"
    /\ requests = <<>>
    /\ attachment = None /\ attachment2 = None
    /\ upload_result = NoResult /\ put_raised = "none" /\ uploads = {}
    /\ mi = 1 /\ outcome = <<>> /\ reported = <<>>
    /\ step = 0 /\ step_ok = FALSE /\ response = <<>>
    /\ i = 0 /\ downloads = <<>> /\ writes = <<>>
    /\ created = {} /\ skips = <<>> /\ failures = <<>> /\ save_raised = "none"
    /\ now = 0 /\ disk = {} /\ overwrites = {}
    /\ file_extension = "png"

(***************************************************************************)
(* task_openai_itt.start                                                   *)
(***************************************************************************)
\* lines 14-16: read the local image and encode it; open() may raise
O_ReadImage ==
    /\ wf = "openai" /\ pc = "o_read"
    /\ \E ok \in BOOLEAN :
         IF ok THEN pc' = "o_ctor" /\ escaped' = escaped
         ELSE pc' = "aborted" /\ escaped' = "open"
    /\ UNCHANGED <<wf, ret, conn, inflight, requests>>
    /\ UNCHANGED <<dialVars, stepVars, saveVars, extVars>>

\* lines 19-23: the client is built outside any try
O_Client ==
    /\ wf = "openai" /\ pc = "o_ctor"
    /\ \E ok \in BOOLEAN :
         IF ok THEN pc' = "o_call1" /\ escaped' = escaped
         ELSE pc' = "aborted" /\ escaped' = "client"
    /\ UNCHANGED <<wf, ret, conn, inflight, requests>>
    /\ UNCHANGED <<dialVars, stepVars, saveVars, extVars>>

\* lines 28-39 and 50-61: the message is built and get_completion is called
O_Call ==
    /\ wf = "openai" /\ pc \in {"o_call1", "o_call2"}
    /\ requests' = Append(requests,
            Request("gpt-4o", "What do you see on this picture?",
                    IF pc = "o_call1" THEN <<base64_data_url>> ELSE <<elephant_url>>,
                    <<>>, NoFields))
    /\ inflight' = inflight \cup {"get_completion"}
    /\ pc' = IF pc = "o_call1" THEN "o_wait1" ELSE "o_wait2"
    /\ UNCHANGED <<wf, ret, conn, escaped>>
    /\ UNCHANGED <<dialVars, stepVars, saveVars, extVars>>

\* lines 40-43 and 62-65: the response is printed, or the exception is
O_Return ==
    /\ wf = "openai" /\ pc \in {"o_wait1", "o_wait2"}
    /\ inflight' = inflight \ {"get_completion"}
    /\ pc' = IF pc = "o_wait1" THEN "o_call2" ELSE "done"
    /\ UNCHANGED <<wf, ret, conn, escaped, requests>>
    /\ UNCHANGED <<dialVars, stepVars, saveVars, extVars>>

(***************************************************************************)
(* task_dial_itt._put_image                                                *)
(***************************************************************************)
\* line 34: if not file_url
\* line 34 as `if file_url is None`
UrlMissingNoneOnly(file_url) == file_url = None

UrlMissing(file_url) == ~Truthy(file_url)

\* an exception leaves _put_image: line 54 is in no try, line 116 is in the
\* try of lines 114-129, whose handler is the last statement of async_start
PutImageRaises(kind) ==
    /\ put_raised' = kind
    /\ IF ret = "first"
       THEN pc' = "aborted" /\ escaped' = kind
       ELSE pc' = "done" /\ escaped' = escaped

\* line 19: async with DialBucketClient(...) is entered
P_OpenCall ==
    /\ wf = "dial" /\ pc = "p_open"
    /\ inflight' = inflight \cup {"bucket_open"}
    /\ put_raised' = "none"
    /\ upload_result' = NoResult
    /\ pc' = "p_open_wait"
    /\ UNCHANGED <<wf, ret, conn, escaped, requests>>
    /\ UNCHANGED <<attachment, attachment2, uploads, mi, outcome, reported>>
    /\ UNCHANGED <<stepVars, saveVars, extVars>>

\* line 19: the connection is open
P_OpenReturn ==
    /\ wf = "dial" /\ pc = "p_open_wait"
    /\ inflight' = inflight \ {"bucket_open"}
    /\ conn' = conn + 1
    /\ pc' = "p_read"
    /\ UNCHANGED <<wf, ret, escaped, requests>>
    /\ UNCHANGED <<dialVars, stepVars, saveVars, extVars>>

\* line 19: opening failed; no connection was opened, none is closed
P_OpenRaise ==
    /\ wf = "dial" /\ pc = "p_open_wait"
    /\ inflight' = inflight \ {"bucket_open"}
    /\ PutImageRaises("bucket_open")
    /\ UNCHANGED <<wf, ret, conn, requests>>
    /\ UNCHANGED <<attachment, attachment2, upload_result, uploads, mi, outcome, reported>>
    /\ UNCHANGED <<stepVars, saveVars, extVars>>

\* lines 21-23: the image is read
P_ReadImage ==
    /\ wf = "dial" /\ pc = "p_read"
    /\ pc' = "p_put"
    /\ UNCHANGED <<wf, ret, conn, inflight, escaped, requests>>
    /\ UNCHANGED <<dialVars, stepVars, saveVars, extVars>>

\* line 21: open() raised; the async with closes the connection
P_ReadImageRaise ==
    /\ wf = "dial" /\ pc = "p_read"
    /\ conn' = conn - 1
    /\ PutImageRaises("open")
    /\ UNCHANGED <<wf, ret, inflight, requests>>
    /\ UNCHANGED <<attachment, attachment2, upload_result, uploads, mi, outcome, reported>>
    /\ UNCHANGED <<stepVars, saveVars, extVars>>

\* lines 26-30: put_file is called
P_PutFileCall ==
    /\ wf = "dial" /\ pc = "p_put"
    /\ inflight' = inflight \cup {"put_file"}
    /\ pc' = "p_put_wait"
    /\ UNCHANGED <<wf, ret, conn, escaped, requests>>
    /\ UNCHANGED <<dialVars, stepVars, saveVars, extVars>>

\* put_file raising with the connection left open
P_PutFileRaiseLeak ==
    /\ wf = "dial" /\ pc = "p_put_wait"
    /\ inflight' = inflight \ {"put_file"}
    /\ PutImageRaises("put_file")
    /\ UNCHANGED <<wf, ret, conn, requests>>
    /\ UNCHANGED <<attachment, attachment2, upload_result, uploads, mi, outcome, reported>>
    /\ UNCHANGED <<stepVars, saveVars, extVars>>

\* line 26: put_file raised; the async with closes the connection
P_PutFileRaise ==
    /\ wf = "dial" /\ pc = "p_put_wait"
    /\ inflight' = inflight \ {"put_file"}
    /\ conn' = conn - 1
    /\ PutImageRaises("put_file")
    /\ UNCHANGED <<wf, ret, requests>>
    /\ UNCHANGED <<attachment, attachment2, upload_result, uploads, mi, outcome, reported>>
    /\ UNCHANGED <<stepVars, saveVars, extVars>>

\* lines 26-41: put_file returned; the url is checked, the Attachment is
\* returned or ValueError raised, and the async with closes the connection
P_PutFileReturn ==
    /\ wf = "dial" /\ pc = "p_put_wait"
    /\ inflight' = inflight \ {"put_file"}
    /\ conn' = conn - 1
    /\ \E r \in UploadResults :
         LET file_url == Get(r, "url")
             a == Attachment(file_name, file_url, mime_type_png)
         IN  /\ upload_result' = r
             /\ IF UrlMissing(file_url)
                THEN /\ PutImageRaises("ValueError")
                     /\ UNCHANGED <<attachment, attachment2, uploads>>
                ELSE /\ put_raised' = "none"
                     /\ uploads' = uploads \cup {a}
                     /\ escaped' = escaped
                     /\ IF ret = "first"
                        THEN /\ attachment' = a
                             /\ attachment2' = attachment2
                             /\ pc' = "d_call1"
                        ELSE /\ attachment2' = a
                             /\ attachment' = attachment
                             /\ pc' = "d_mcall"
    /\ UNCHANGED <<wf, ret, requests>>
    /\ UNCHANGED <<mi, outcome, reported>>
    /\ UNCHANGED <<stepVars, saveVars, extVars>>

(***************************************************************************)
(* task_dial_itt.async_start                                               *)
(***************************************************************************)
\* lines 46-54: the client is built, then _put_image is called, in no try
D_Client ==
    /\ wf = "dial" /\ pc = "d_ctor"
    /\ \E ok \in BOOLEAN :
         IF ok THEN pc' = "p_open" /\ escaped' = escaped
         ELSE pc' = "aborted" /\ escaped' = "client"
    /\ ret' = "first"
    /\ UNCHANGED <<wf, conn, inflight, requests>>
    /\ UNCHANGED <<dialVars, stepVars, saveVars, extVars>>

\* lines 66-73: the message with [attachment] is sent
D_Call ==
    /\ wf = "dial" /\ pc = "d_call1"
    /\ requests' = Append(requests,
            Request("gpt-4o", "What do you see on this picture?", <<>>,
                    <<attachment>>, NoFields))
    /\ inflight' = inflight \cup {"get_completion"}
    /\ pc' = "d_wait1"
    /\ UNCHANGED <<wf, ret, conn, escaped>>
    /\ UNCHANGED <<dialVars, stepVars, saveVars, extVars>>

\* lines 74-77: the analysis is printed, or the exception is
D_Return ==
    /\ wf = "dial" /\ pc = "d_wait1"
    /\ inflight' = inflight \ {"get_completion"}
    /\ mi' = 1
    /\ pc' = "d_loop"
    /\ UNCHANGED <<wf, ret, conn, escaped, requests>>
    /\ UNCHANGED <<attachment, attachment2, upload_result, put_raised, uploads,
                   outcome, reported>>
    /\ UNCHANGED <<stepVars, saveVars, extVars>>

\* lines 89-96: the next model's client is built inside the try
D_LoopClient ==
    /\ wf = "dial" /\ pc = "d_loop" /\ mi <= Len(models_to_test)
    /\ pc' = "d_lcall"
    /\ UNCHANGED <<wf, ret, conn, inflight, escaped, requests>>
    /\ UNCHANGED <<dialVars, stepVars, saveVars, extVars>>

\* lines 92-96, 107-108: building the client raised; the handler reports it
D_LoopClientRaise ==
    /\ wf = "dial" /\ pc = "d_loop" /\ mi <= Len(models_to_test)
    /\ outcome' = Append(outcome, "client_failed")
    /\ mi' = mi + 1
    /\ UNCHANGED <<wf, pc, ret, conn, inflight, escaped, requests>>
    /\ UNCHANGED <<attachment, attachment2, upload_result, put_raised, uploads, reported>>
    /\ UNCHANGED <<stepVars, saveVars, extVars>>

\* lines 98-104: the message with [attachment] is sent to the model
D_LoopCall ==
    /\ wf = "dial" /\ pc = "d_lcall"
    /\ requests' = Append(requests,
            Request(models_to_test[mi], "Describe this image in one sentence.",
                    <<>>, <<attachment>>, NoFields))
    /\ inflight' = inflight \cup {"get_completion"}
    /\ pc' = "d_lwait"
    /\ UNCHANGED <<wf, ret, conn, escaped>>
    /\ UNCHANGED <<dialVars, stepVars, saveVars, extVars>>

\* the handler of line 107 ending the loop
D_LoopRaiseBreak ==
    /\ wf = "dial" /\ pc = "d_lwait"
    /\ inflight' = inflight \ {"get_completion"}
    /\ outcome' = Append(outcome, "call_failed")
    /\ mi' = Len(models_to_test) + 1
    /\ pc' = "d_loop"
    /\ UNCHANGED <<wf, ret, conn, escaped, requests>>
    /\ UNCHANGED <<attachment, attachment2, upload_result, put_raised, uploads, reported>>
    /\ UNCHANGED <<stepVars, saveVars, extVars>>

\* lines 104, 107-108: get_completion raised; the handler reports it and the
\* loop goes on
D_LoopRaise ==
    /\ wf = "dial" /\ pc = "d_lwait"
    /\ inflight' = inflight \ {"get_completion"}
    /\ outcome' = Append(outcome, "call_failed")
    /\ mi' = mi + 1
    /\ pc' = "d_loop"
    /\ UNCHANGED <<wf, ret, conn, escaped, requests>>
    /\ UNCHANGED <<attachment, attachment2, upload_result, put_raised, uploads, reported>>
    /\ UNCHANGED <<stepVars, saveVars, extVars>>

\* lines 104-105: get_completion returned; the model's result is printed
D_LoopReturn ==
    /\ wf = "dial" /\ pc = "d_lwait"
    /\ inflight' = inflight \ {"get_completion"}
    /\ outcome' = Append(outcome, "ok")
    /\ reported' = Append(reported, models_to_test[mi])
    /\ mi' = mi + 1
    /\ pc' = "d_loop"
    /\ UNCHANGED <<wf, ret, conn, escaped, requests>>
    /\ UNCHANGED <<attachment, attachment2, upload_result, put_raised, uploads>>
    /\ UNCHANGED <<stepVars, saveVars, extVars>>

\* lines 114-116: the loop is over; _put_image is called inside the try
D_Multi ==
    /\ wf = "dial" /\ pc = "d_loop" /\ mi > Len(models_to_test)
    /\ ret' = "multi"
    /\ pc' = "p_open"
    /\ UNCHANGED <<wf, conn, inflight, escaped, requests>>
    /\ UNCHANGED <<dialVars, stepVars, saveVars, extVars>>

\* lines 118-124: the message with [attachment, attachment2] is sent
D_MultiCall ==
    /\ wf = "dial" /\ pc = "d_mcall"
    /\ requests' = Append(requests,
            Request("gpt-4o",
                    "Compare these two images. What similarities and differences do you notice?",
                    <<>>, <<attachment, attachment2>>, NoFields))
    /\ inflight' = inflight \cup {"get_completion"}
    /\ pc' = "d_mwait"
    /\ UNCHANGED <<wf, ret, conn, escaped>>
    /\ UNCHANGED <<dialVars, stepVars, saveVars, extVars>>

\* lines 125-129: the comparison is printed, or the exception is
D_MultiReturn ==
    /\ wf = "dial" /\ pc = "d_mwait"
    /\ inflight' = inflight \ {"get_completion"}
    /\ pc' = "done"
    /\ UNCHANGED <<wf, ret, conn, escaped, requests>>
    /\ UNCHANGED <<dialVars, stepVars, saveVars, extVars>>

(***************************************************************************)
(* task_tti.async_start: five generation steps.  Steps 1 and 2 use client, *)
(* step 3 google_client, steps 4 and 5 are the loop over styles_to_test.   *)
(***************************************************************************)
LastStep == 3 + Len(styles_to_test)

StepModel(s) == IF s = 3 THEN "imagegeneration@005" ELSE "dall-e-3"

StepPrompt(s) ==
    IF s = 1 THEN "Sunny day on Bali"
    ELSE IF s = 2 THEN "A breathtaking sunset over rice terraces in Bali"
    ELSE IF s = 3 THEN "A serene beach scene in Bali"
    ELSE styles_to_test[s - 3][2]

\* the style loop passing the first style in every iteration
StepFieldsSameStyle(s) ==
    IF s = 1 THEN NoFields
    ELSE IF s = 2 THEN custom_fields
    ELSE IF s = 3 THEN google_custom_fields
    ELSE style_custom_fields(styles_to_test[1][1])

\* the custom_fields argument of the step's get_completion call
StepFields(s) ==
    IF s = 1 THEN NoFields
    ELSE IF s = 2 THEN custom_fields
    ELSE IF s = 3 THEN google_custom_fields
    ELSE style_custom_fields(styles_to_test[s - 3][1])

\* where control goes when step s is over: google_client is built between
\* steps 2 and 3, outside any try
AfterStep(s) ==
    IF s = 2 THEN "t_gctor" ELSE IF s = LastStep THEN "done" ELSE "t_call"

\* control leaves _save_images, by return or by exception: the caller's try
\* has nothing left to do but print
Leave == pc' = IF wf = "save" THEN "done" ELSE AfterStep(step)

\* lines 87-91: the client is built outside any try
T_Client ==
    /\ wf = "tti" /\ pc = "t_ctor"
    /\ \E ok \in BOOLEAN :
         IF ok THEN pc' = "t_call" /\ escaped' = escaped
         ELSE pc' = "aborted" /\ escaped' = "client"
    /\ UNCHANGED <<wf, ret, conn, inflight, requests>>
    /\ UNCHANGED <<dialVars, stepVars, saveVars, extVars>>

\* lines 155-159: google_client is built outside any try
T_GoogleClient ==
    /\ wf = "tti" /\ pc = "t_gctor"
    /\ \E ok \in BOOLEAN :
         IF ok THEN pc' = "t_call" /\ escaped' = escaped
         ELSE pc' = "aborted" /\ escaped' = "client"
    /\ UNCHANGED <<wf, ret, conn, inflight, requests>>
    /\ UNCHANGED <<dialVars, stepVars, saveVars, extVars>>

\* lines 96-102, 121-137, 161-177, 202-217: the next step builds its message
\* and custom fields and calls get_completion
T_Call ==
    /\ wf = "tti" /\ pc = "t_call"
    /\ step' = step + 1
    /\ step_ok' = FALSE
    /\ requests' = Append(requests,
            Request(StepModel(step + 1), StepPrompt(step + 1), <<>>, <<>>,
                    StepFields(step + 1)))
    /\ inflight' = inflight \cup {"get_completion"}
    /\ atts' = <<>> /\ i' = 0 /\ downloads' = <<>> /\ writes' = <<>>
    /\ created' = {} /\ skips' = <<>> /\ failures' = <<>> /\ save_raised' = "none"
    /\ pc' = "t_wait"
    /\ UNCHANGED <<wf, ret, conn, escaped, response, now, disk, overwrites>>
    /\ UNCHANGED <<dialVars, extVars>>

\* the attachments test of lines 107-109 placed after the try: the
\* response of an earlier step is still bound to `response`
T_RaiseSavesStale ==
    /\ wf = "tti" /\ pc = "t_wait"
    /\ inflight' = inflight \ {"get_completion"}
    /\ IF response # <<>>
       THEN atts' = response /\ pc' = "s_open"
       ELSE atts' = atts /\ pc' = AfterStep(step)
    /\ UNCHANGED <<wf, ret, conn, escaped, requests>>
    /\ UNCHANGED <<i, downloads, writes, created, skips, failures, save_raised,
                   now, disk, overwrites>>
    /\ UNCHANGED <<dialVars, stepVars, extVars>>

\* lines 113-114, 147-148, 187-188, 223-224: get_completion raised; the
\* handler prints and the step is over
T_Raise ==
    /\ wf = "tti" /\ pc = "t_wait"
    /\ inflight' = inflight \ {"get_completion"}
    /\ pc' = AfterStep(step)
    /\ UNCHANGED <<wf, ret, conn, escaped, requests>>
    /\ UNCHANGED <<dialVars, stepVars, saveVars, extVars>>

\* lines 102-111, 138-145, 178-185, 219-221: get_completion returned; a
\* response with attachments goes to _save_images, any other ends the step
T_Return ==
    /\ wf = "tti" /\ pc = "t_wait"
    /\ inflight' = inflight \ {"get_completion"}
    /\ step_ok' = TRUE
    /\ \E r \in Responses :
         /\ response' = r
         /\ IF r # <<>>
            THEN atts' = r /\ pc' = "s_open"
            ELSE atts' = atts /\ pc' = AfterStep(step)
    /\ UNCHANGED <<wf, ret, conn, escaped, requests, step>>
    /\ UNCHANGED <<i, downloads, writes, created, skips, failures, save_raised,
                   now, disk, overwrites>>
    /\ UNCHANGED <<dialVars, extVars>>

(***************************************************************************)
(* task_tti._save_images                                                   *)
(***************************************************************************)
\* line 48 as `if attachment.url is not None`
HasUrlNotNone(a) == a.url # None

\* line 48: if attachment.url
HasUrl(a) == Truthy(a.url)

\* line 41: async with DialBucketClient(...) is entered
S_OpenCall ==
    /\ wf \in {"tti", "save"} /\ pc = "s_open"
    /\ inflight' = inflight \cup {"bucket_open"}
    /\ pc' = "s_open_wait"
    /\ UNCHANGED <<wf, ret, conn, escaped, requests>>
    /\ UNCHANGED <<dialVars, stepVars, saveVars, extVars>>

\* line 41: the connection is open
S_OpenReturn ==
    /\ pc = "s_open_wait"
    /\ inflight' = inflight \ {"bucket_open"}
    /\ conn' = conn + 1
    /\ pc' = "s_mkdir"
    /\ UNCHANGED <<wf, ret, escaped, requests>>
    /\ UNCHANGED <<dialVars, stepVars, saveVars, extVars>>

\* line 41: opening failed; the exception leaves _save_images
S_OpenRaise ==
    /\ pc = "s_open_wait"
    /\ inflight' = inflight \ {"bucket_open"}
    /\ save_raised' = "bucket_open"
    /\ Leave
    /\ UNCHANGED <<wf, ret, conn, escaped, requests>>
    /\ UNCHANGED <<atts, i, downloads, writes, created, skips, failures, now,
                   disk, overwrites>>
    /\ UNCHANGED <<dialVars, stepVars, extVars>>

\* lines 43-44: the output directory exists or is made
S_Mkdir ==
    /\ pc = "s_mkdir"
    /\ pc' = "s_loop"
    /\ UNCHANGED <<wf, ret, conn, inflight, escaped, requests>>
    /\ UNCHANGED <<dialVars, stepVars, saveVars, extVars>>

\* line 44: mkdir raised; the async with closes the connection and the
\* exception leaves _save_images
S_MkdirRaise ==
    /\ pc = "s_mkdir"
    /\ conn' = conn - 1
    /\ save_raised' = "mkdir"
    /\ Leave
    /\ UNCHANGED <<wf, ret, inflight, escaped, requests>>
    /\ UNCHANGED <<atts, i, downloads, writes, created, skips, failures, now,
                   disk, overwrites>>
    /\ UNCHANGED <<dialVars, stepVars, extVars>>

\* lines 47-48, 81-82: an attachment without a url is reported and passed over
S_Skip ==
    /\ pc = "s_loop" /\ i < Len(atts)
    /\ ~HasUrl(atts[i + 1])
    /\ skips' = Append(skips, i + 1)
    /\ i' = i + 1
    /\ UNCHANGED <<wf, pc, ret, conn, inflight, escaped, requests>>
    /\ UNCHANGED <<atts, downloads, writes, created, failures, save_raised, now,
                   disk, overwrites>>
    /\ UNCHANGED <<dialVars, stepVars, extVars>>

\* lines 47-53: get_file is called for an attachment with a url
S_GetFileCall ==
    /\ pc = "s_loop" /\ i < Len(atts)
    /\ HasUrl(atts[i + 1])
    /\ inflight' = inflight \cup {"get_file"}
    /\ downloads' = Append(downloads, i + 1)
    /\ pc' = "s_get_wait"
    /\ UNCHANGED <<wf, ret, conn, escaped, requests>>
    /\ UNCHANGED <<atts, i, writes, created, skips, failures, save_raised, now,
                   disk, overwrites>>
    /\ UNCHANGED <<dialVars, stepVars, extVars>>

\* the handler of line 79 ending the loop
S_GetFileRaiseBreak ==
    /\ pc = "s_get_wait"
    /\ inflight' = inflight \ {"get_file"}
    /\ failures' = Append(failures, [index |-> i + 1, op |-> "get_file"])
    /\ i' = Len(atts)
    /\ pc' = "s_loop"
    /\ UNCHANGED <<wf, ret, conn, escaped, requests>>
    /\ UNCHANGED <<atts, downloads, writes, created, skips, save_raised, now,
                   disk, overwrites>>
    /\ UNCHANGED <<dialVars, stepVars, extVars>>

\* lines 53, 79-80: get_file raised; the handler reports it and the loop goes on
S_GetFileRaise ==
    /\ pc = "s_get_wait"
    /\ inflight' = inflight \ {"get_file"}
    /\ failures' = Append(failures, [index |-> i + 1, op |-> "get_file"])
    /\ i' = i + 1
    /\ pc' = "s_loop"
    /\ UNCHANGED <<wf, ret, conn, escaped, requests>>
    /\ UNCHANGED <<atts, downloads, writes, created, skips, save_raised, now,
                   disk, overwrites>>
    /\ UNCHANGED <<dialVars, stepVars, extVars>>

\* lines 53-80: get_file returned; the clock is read, the name is built and
\* the bytes are written.  open(file_path, 'wb') may raise, leaving no file;
\* f.write may raise, leaving the file open() made; both are reported by the
\* handler of line 79 and the loop goes on
S_GetFileReturn ==
    /\ pc = "s_get_wait"
    /\ inflight' = inflight \ {"get_file"}
    /\ \E t \in now..MaxClock, result \in {"saved", "open", "write"} :
         LET filename == Filename(Timestamp(t), i, FileExtension(atts[i + 1].type))
         IN  /\ now' = t
             /\ IF result = "open"
                THEN UNCHANGED <<disk, overwrites, created>>
                ELSE /\ disk' = disk \cup {filename}
                     /\ overwrites' = overwrites \cup ({filename} \cap disk)
                     /\ created' = created \cup {i + 1}
             /\ IF result = "saved"
                THEN /\ writes' = Append(writes, [index |-> i + 1, name |-> filename])
                     /\ failures' = failures
                ELSE /\ failures' = Append(failures, [index |-> i + 1, op |-> result])
                     /\ writes' = writes
    /\ i' = i + 1
    /\ pc' = "s_loop"
    /\ UNCHANGED <<wf, ret, conn, escaped, requests>>
    /\ UNCHANGED <<atts, downloads, skips, save_raised>>
    /\ UNCHANGED <<dialVars, stepVars, extVars>>

\* lines 41, 47: the list is exhausted; the async with closes the connection
\* and _save_images returns
S_Return ==
    /\ pc = "s_loop" /\ i >= Len(atts)
    /\ conn' = conn - 1
    /\ Leave
    /\ UNCHANGED <<wf, ret, inflight, escaped, requests>>
    /\ UNCHANGED <<dialVars, stepVars, saveVars, extVars>>

(***************************************************************************)
(* The extension rule of _save_images on its own.                          *)
(***************************************************************************)
\* lines 57-66 applied to attachment.type
E_Apply ==
    /\ wf = "ext" /\ pc = "e_start"
    /\ file_extension' = FileExtension(type_in)
    /\ pc' = "done"
    /\ UNCHANGED <<wf, ret, conn, inflight, escaped, requests, type_in>>
    /\ UNCHANGED <<dialVars, stepVars, saveVars>>

(***************************************************************************)
(* Specifications.                                                         *)
(***************************************************************************)
\* one of the three scripts is run
Init ==
    /\ Idle
    /\ wf \in {"openai", "dial", "tti"}
    /\ atts = <<>> /\ type_in = None
    /\ pc = IF wf = "openai" THEN "o_read" ELSE IF wf = "dial" THEN "d_ctor" ELSE "t_ctor"

OpenAINext == O_ReadImage \/ O_Client \/ O_Call \/ O_Return

PutImageNext ==
    \/ P_OpenCall \/ P_OpenReturn \/ P_OpenRaise
    \/ P_ReadImage \/ P_ReadImageRaise
    \/ P_PutFileCall \/ P_PutFileRaise \/ P_PutFileReturn

DialNext ==
    \/ D_Client \/ D_Call \/ D_Return
    \/ D_LoopClient \/ D_LoopClientRaise \/ D_LoopCall \/ D_LoopRaise \/ D_LoopReturn
    \/ D_Multi \/ D_MultiCall \/ D_MultiReturn

TtiNext == T_Client \/ T_GoogleClient \/ T_Call \/ T_Raise \/ T_Return

SaveNext ==
    \/ S_OpenCall \/ S_OpenReturn \/ S_OpenRaise
    \/ S_Mkdir \/ S_MkdirRaise
    \/ S_Skip \/ S_GetFileCall \/ S_GetFileRaise \/ S_GetFileReturn
    \/ S_Return

Next == OpenAINext \/ PutImageNext \/ DialNext \/ TtiNext \/ SaveNext

Spec == Init /\ [][Next]_vars

\* _save_images is called with any list of attachments
SaveInit ==
    /\ Idle
    /\ wf = "save"
    /\ pc = "s_open"
    /\ atts \in Batches
    /\ type_in = None

SaveSpec == SaveInit /\ [][SaveNext]_vars

\* the extension rule is applied to any type
ExtInit ==
    /\ Idle
    /\ wf = "ext"
    /\ pc = "e_start"
    /\ type_in \in TypeStrings
    /\ atts = <<>>

ExtNext == E_Apply

ExtSpec == ExtInit /\ [][ExtNext]_vars

(***************************************************************************)
(* Properties.                                                             *)
(***************************************************************************)
Range(seq) == {seq[k] : k \in 1..Len(seq)}

SavePcs == {"s_open", "s_open_wait", "s_mkdir", "s_loop", "s_get_wait"}
WaitPcs ==
    {"o_wait1", "o_wait2", "p_open_wait", "p_put_wait", "d_wait1", "d_lwait",
     "d_mwait", "t_wait", "s_open_wait", "s_get_wait"}

\* positions of the attachments of the batch that have a non-empty url
UrlIdx == {k \in 1..Len(atts) : atts[k].url # None /\ atts[k].url # <<>>}

\* the requests of the model comparison loop, and the models they went to
LoopRequests ==
    SelectSeq(requests, LAMBDA r : r.prompt = "Describe this image in one sentence.")
ModelsOf(reqs) == [k \in 1..Len(reqs) |-> reqs[k].model]

\* the models, in list order, whose iteration ended in one of `ends`
ModelsEnded(ends) ==
    LET idx == SelectSeq([k \in 1..Len(outcome) |-> k], LAMBDA k : outcome[k] \in ends)
    IN  [k \in 1..Len(idx) |-> models_to_test[idx[k]]]

LoopOver == wf = "dial" /\ mi > Len(models_to_test)

\* C1: no exception of a network step (opening the bucket connection,
\* put_file, get_file, get_completion) leaves a workflow.
C1_NoNetworkFailureEscapes == escaped \notin NetworkOps

\* C2, as stated: when the comparison loop is over, one completion call was
\* issued for each of the three models, in list order, whichever clients or
\* calls raised, and the models whose call succeeded were reported.
C2_EveryModelCalled ==
    LoopOver =>
        /\ ModelsOf(LoopRequests) = models_to_test
        /\ reported = ModelsEnded({"ok"})

\* C2, amended: the loop runs one iteration per model, in list order,
\* whatever raised before; a completion call is issued exactly for the models
\* whose client was built, and exactly the models whose call returned are
\* reported.
C2_EveryModelAttempted ==
    wf = "dial" =>
        /\ Len(outcome) = mi - 1
        /\ LoopOver => Len(outcome) = Len(models_to_test)
        /\ ModelsOf(LoopRequests) =
              ModelsEnded({"ok", "call_failed"})
                 \o (IF pc = "d_lwait" THEN <<models_to_test[mi]>> ELSE <<>>)
        /\ reported = ModelsEnded({"ok"})

C2_Witness ==
    /\ LoopOver
    /\ outcome = <<"client_failed", "call_failed", "ok">>
    /\ reported = <<models_to_test[3]>>

\* what holds of a finished batch whatever failed: nothing is downloaded or
\* created for an attachment without a url, and line 82 reports each of them
\* once
NoUrlSkipped ==
    /\ Range(downloads) \subseteq UrlIdx
    /\ created \subseteq UrlIdx
    /\ Len(skips) = Len(atts) - Cardinality(UrlIdx)
    /\ Range(skips) = (1..Len(atts)) \ UrlIdx

OneFilePerUrl ==
    /\ save_raised = "none"
    /\ Len(writes) = Cardinality(UrlIdx)
    /\ {w.index : w \in Range(writes)} = UrlIdx
    /\ Cardinality({w.name : w \in Range(writes)}) = Cardinality(UrlIdx)

\* C3, as stated: when the bucket connection opened and every download
\* succeeded, _save_images does not raise, skips exactly the attachments
\* without a url and writes exactly one file for each of the others.
C3_OneFilePerUrlWhenDownloadsSucceed ==
    (/\ wf = "save" /\ pc = "done"
     /\ save_raised # "bucket_open"
     /\ \A f \in Range(failures) : f.op # "get_file")
        => NoUrlSkipped /\ OneFilePerUrl

\* C3, amended: when the bucket connection opened, the output directory
\* could be made, and every download and every file write succeeded,
\* _save_images does not raise, skips exactly the attachments without a url
\* and writes exactly one file for each of the others.
C3_OneFilePerUrlWhenAllSucceed ==
    /\ wf = "save" /\ pc = "done" /\ save_raised = "none" => NoUrlSkipped
    /\ (/\ wf = "save" /\ pc = "done"
        /\ save_raised \notin {"bucket_open", "mkdir"}
        /\ failures = <<>>)
          => NoUrlSkipped /\ OneFilePerUrl

\* the scenario of the spec: a png with a url and a jpeg without one
C3_Witness ==
    /\ wf = "save" /\ pc = "done" /\ failures = <<>> /\ save_raised = "none"
    /\ atts = <<Attachment("image", url_a, mime_type_png),
                Attachment("image", <<>>, mime_type_jpeg)>>
    /\ Len(writes) = 1 /\ writes[1].index = 1 /\ writes[1].name.ext = "png"
    /\ skips = <<2>>

C5_NoEmptyUrlSent ==
    wf = "dial" =>
        /\ (upload_result # NoResult /\ ~Truthy(Get(upload_result, "url")))
              => put_raised = "ValueError"
        /\ \A r \in Range(requests) : \A a \in Range(r.attachments) :
              /\ a.url # None /\ a.url # <<>>
              /\ a \in uploads
        /\ \A a \in uploads : a.url # None /\ a.url # <<>>

C5_Witness ==
    /\ wf = "dial" /\ pc = "done"
    /\ put_raised = "ValueError"
    /\ upload_result = [url |-> <<>>]
    /\ Len(requests) = 4

\* C6: at most one bucket connection is open; put_file and get_file run
\* while it is open and get_completion while none is; a connection is open
\* only inside the block of _put_image or _save_images that opened it, so it
\* is closed on every way out, and none is open when a workflow ends.
C6_ConnectionScoped ==
    /\ conn \in {0, 1}
    /\ inflight \cap {"put_file", "get_file"} # {} => conn = 1
    /\ "get_completion" \in inflight => conn = 0
    /\ "bucket_open" \in inflight => conn = 0
    /\ conn = 1 <=> pc \in {"p_read", "p_put", "p_put_wait",
                            "s_mkdir", "s_loop", "s_get_wait"}
    /\ pc \in {"done", "aborted"} => conn = 0

C6_Witness ==
    /\ wf = "dial" /\ pc = "done" /\ ret = "multi"
    /\ put_raised = "put_file"
    /\ conn = 0

\* C7: at most one network operation is in flight and it has returned or
\* raised before the coroutine moves on; every attachment of a completion
\* request was returned by an earlier upload; _save_images runs, downloads
\* and writes only in a step whose completion call returned attachments,
\* and on those attachments.
C7_Sequential ==
    /\ Cardinality(inflight) <= 1
    /\ inflight # {} <=> pc \in WaitPcs
    /\ \A r \in Range(requests) : Range(r.attachments) \subseteq uploads
    /\ wf = "tti" =>
          /\ (pc \in SavePcs \/ downloads # <<>> \/ created # {} \/ writes # <<>>)
                => step_ok /\ response # <<>> /\ atts = response
          /\ \A k \in Range(downloads) :
                k \in 1..Len(response) /\ Truthy(response[k].url)

\* a step whose call raised after an earlier step had returned attachments
C7_Witness ==
    /\ wf = "tti" /\ pc = "done"
    /\ ~step_ok /\ response # <<>>
    /\ downloads = <<>> /\ disk # {}

\* what holds of a finished batch that got past mkdir: every attachment with
\* a url was downloaded once, in list order, and saved unless it failed
EveryUrlTried ==
    /\ downloads = SelectSeq([k \in 1..Len(atts) |-> k], LAMBDA k : k \in UrlIdx)
    /\ {w.index : w \in Range(writes)} =
          UrlIdx \ {f.index : f \in Range(failures)}
    /\ Len(writes) + Len(failures) = Cardinality(UrlIdx)

\* C8, as stated: a failed download or file write produces no file for its
\* attachment, is reported and not raised, and every later attachment with a
\* url is still downloaded and saved.
C8_FailedAttachmentLeavesNoFile ==
    (wf = "save" /\ pc = "done" /\ save_raised = "none") =>
        /\ \A f \in Range(failures) : f.index \notin created
        /\ EveryUrlTried

\* C8, amended: a failed download or file write saves no file for its
\* attachment (a write that fails after open() made the destination file
\* leaves that file behind), is reported and not raised, and every later
\* attachment with a url is still downloaded and, unless it fails itself,
\* saved.
C8_FailureAffectsOnlyItsAttachment ==
    /\ failures # <<>> => save_raised = "none"
    /\ (wf = "save" /\ pc = "done" /\ save_raised = "none") =>
          /\ \A f \in Range(failures) :
                /\ f.index \notin {w.index : w \in Range(writes)}
                /\ f.op \in {"get_file", "open"} => f.index \notin created
          /\ EveryUrlTried

C8_Witness ==
    /\ wf = "save" /\ pc = "done" /\ Len(atts) = 3
    /\ failures = <<[index |-> 1, op |-> "get_file"], [index |-> 2, op |-> "write"]>>
    /\ Len(writes) = 1 /\ writes[1].index = 3

\* C9: every completion request carries the custom fields of its own step,
\* unmodified: none, then {size, style, quality, n}, then {aspectRatio,
\* seed, guidanceScale}, then {size, style, quality} with style natural and
\* with style vivid; the other workflows pass none.
C9_FieldsOfOwnStep ==
    LET expected ==
          << [absent |-> TRUE],
             [size |-> "1792x1024", style |-> "vivid", quality |-> "hd", n |-> 1],
             [aspectRatio |-> "16:9", seed |-> 42, guidanceScale |-> "7.5"],
             [size |-> "1024x1024", style |-> "natural", quality |-> "hd"],
             [size |-> "1024x1024", style |-> "vivid", quality |-> "hd"] >>
    IN  IF wf = "tti"
        THEN /\ Len(requests) = step
             /\ \A k \in 1..Len(requests) : requests[k].custom_fields = expected[k]
        ELSE \A r \in Range(requests) : r.custom_fields = [absent |-> TRUE]

C9_Witness ==
    /\ wf = "tti" /\ pc = "done"
    /\ Len(requests) = 5
    /\ requests[5].custom_fields.style = "vivid"
    /\ requests[4].custom_fields.style = "natural"

\* C10: no file written in a run of task_tti has the name of a file written
\* earlier in the run.
C10_NoFileOverwritten == wf = "tti" => overwrites = {}

====
